---- MODULE Spec2Model ----
(***************************************************************************)
(* A model of the ABM agent (src/src/agents/abm_agent.py): the             *)
(* configuration loader, the three built-in agents and the run_campaign    *)
(* loop of ABMAgentWrapper, with Python's float arithmetic modelled as     *)
(* IEEE-754 binary64 (round to nearest, ties to even).                     *)
(***************************************************************************)
EXTENDS Integers, Sequences, FiniteSets, TLC

(***************************************************************************)
(* Natural numbers of any size.  TLC's integers are 32 bits wide and a     *)
(* binary64 significand has 53, so a natural is a sequence of limbs, least *)
(* significant first, without leading zero limbs; zero is << >>.           *)
(***************************************************************************)
Limb == 2 ^ 15

RECURSIVE BitLenInt(_)
BitLenInt(n) == IF n = 0 THEN 0 ELSE 1 + BitLenInt(n \div 2)

LimbBits == BitLenInt(Limb) - 1

RECURSIVE BTrim(_)
BTrim(a) ==
  IF a = << >> THEN << >>
  ELSE IF a[Len(a)] = 0 THEN BTrim(SubSeq(a, 1, Len(a) - 1))
  ELSE a

RECURSIVE BFromInt(_)
BFromInt(n) == IF n = 0 THEN << >> ELSE <<n % Limb>> \o BFromInt(n \div Limb)

BLimb(a, i) == IF i <= Len(a) THEN a[i] ELSE 0

BMaxLen(a, b) == IF Len(a) >= Len(b) THEN Len(a) ELSE Len(b)

RECURSIVE BAddFrom(_, _, _, _)
BAddFrom(a, b, i, carry) ==
  IF i > BMaxLen(a, b)
  THEN IF carry = 0 THEN << >> ELSE <<carry>>
  ELSE LET s == BLimb(a, i) + BLimb(b, i) + carry
       IN  <<s % Limb>> \o BAddFrom(a, b, i + 1, s \div Limb)

BAdd(a, b) == BAddFrom(a, b, 1, 0)

\* a - b for a >= b
RECURSIVE BSubFrom(_, _, _, _)
BSubFrom(a, b, i, borrow) ==
  IF i > Len(a) THEN << >>
  ELSE LET d == a[i] - BLimb(b, i) - borrow
       IN  IF d < 0 THEN <<d + Limb>> \o BSubFrom(a, b, i + 1, 1)
           ELSE <<d>> \o BSubFrom(a, b, i + 1, 0)

BSub(a, b) == BTrim(BSubFrom(a, b, 1, 0))

\* -1, 0, 1 as a < b, a = b, a > b
RECURSIVE BCmpFrom(_, _, _)
BCmpFrom(a, b, i) ==
  IF i = 0 THEN 0
  ELSE IF a[i] < b[i] THEN -1
  ELSE IF a[i] > b[i] THEN 1
  ELSE BCmpFrom(a, b, i - 1)

BCmp(a, b) ==
  IF Len(a) < Len(b) THEN -1
  ELSE IF Len(a) > Len(b) THEN 1
  ELSE BCmpFrom(a, b, Len(a))

\* a * k for 0 <= k < Limb
RECURSIVE BMulSmallFrom(_, _, _, _)
BMulSmallFrom(a, k, i, carry) ==
  IF i > Len(a)
  THEN IF carry = 0 THEN << >> ELSE <<carry>>
  ELSE LET p == a[i] * k + carry
       IN  <<p % Limb>> \o BMulSmallFrom(a, k, i + 1, p \div Limb)

BMulSmall(a, k) == IF k = 0 THEN << >> ELSE BMulSmallFrom(a, k, 1, 0)

BZeros(n) == [i \in 1..n |-> 0]

BShiftLimbs(a, n) == IF a = << >> THEN << >> ELSE BZeros(n) \o a

RECURSIVE BMulFrom(_, _, _)
BMulFrom(a, b, i) ==
  IF i > Len(b) THEN << >>
  ELSE BAdd(BShiftLimbs(BMulSmall(a, b[i]), i - 1), BMulFrom(a, b, i + 1))

BMul(a, b) == BMulFrom(a, b, 1)

\* a * 2^k
BShl(a, k) == BShiftLimbs(BMulSmall(a, 2 ^ (k % LimbBits)), k \div LimbBits)

\* <<floor(a / d), a mod d>> for 0 < d < Limb
RECURSIVE BDivSmallFrom(_, _, _, _)
BDivSmallFrom(a, d, i, rem) ==
  IF i = 0 THEN <<<< >>, rem>>
  ELSE LET cur  == rem * Limb + a[i]
           rest == BDivSmallFrom(a, d, i - 1, cur % d)
       IN  <<Append(rest[1], cur \div d), rest[2]>>

BTrimQuotient(r) == <<BTrim(r[1]), r[2]>>

BDivSmall(a, d) == BTrimQuotient(BDivSmallFrom(a, d, Len(a), 0))

BBitLen(a) ==
  IF a = << >> THEN 0 ELSE (Len(a) - 1) * LimbBits + BitLenInt(a[Len(a)])

BIsZeroBelow(a, n) == \A i \in 1..n : BLimb(a, i) = 0

BDropLimbs(a, n) == IF n >= Len(a) THEN << >> ELSE SubSeq(a, n + 1, Len(a))

BShrWith(q, lost) == <<q[1], (q[2] # 0) \/ lost>>

\* <<floor(a / 2^k), whether a mod 2^k is non-zero>>
BShr(a, k) ==
  BShrWith(BDivSmall(BDropLimbs(a, k \div LimbBits), 2 ^ (k % LimbBits)),
           ~BIsZeroBelow(a, k \div LimbBits))

BIsOdd(a) == a # << >> /\ a[1] % 2 = 1

(***************************************************************************)
(* Python floats: IEEE-754 binary64.  A float is its sign s (1: negative), *)
(* its significand m, a natural of exactly SigBits bits, and its exponent  *)
(* e: the value is (-1)^s * m * 2^e.  Zero is [s = 0, m = << >>, e = 0].   *)
(* Every value of the model is far from the overflow and subnormal ranges, *)
(* which are left out.                                                     *)
(***************************************************************************)
\* 52 stored bits and the implicit leading one
SigBits == 52 + 1

FZero == [s |-> 0, m |-> << >>, e |-> 0]

FloatOf(s, m, e) == [s |-> s, m |-> m, e |-> e]

\* a significand that rounding up has carried to SigBits + 1 bits is halved
FCarry(s, r, e) ==
  IF BBitLen(r) > SigBits THEN FloatOf(s, BShr(r, 1)[1], e + 1)
  ELSE FloatOf(s, r, e)

\* round to nearest, ties to even: q is the kept part, `half' the first bit
\* cut off and `below' whether anything lies under it
FNearest(s, q, e, half, below) ==
  FCarry(s, IF half /\ (below \/ BIsOdd(q)) THEN BAdd(q, <<1>>) ELSE q, e)

\* cut is <<the significand with one bit more, whether bits under it are set>>
FCut(s, cut, e, sticky) ==
  FNearest(s, BShr(cut[1], 1)[1], e, BIsOdd(cut[1]), cut[2] \/ sticky)

FRoundLen(s, m, e, sticky, len) ==
  IF len = 0 THEN FZero
  ELSE IF len <= SigBits THEN FloatOf(s, BShl(m, SigBits - len), e - (SigBits - len))
  ELSE FCut(s, BShr(m, len - SigBits - 1), e + (len - SigBits), sticky)

\* the float nearest to (-1)^s * (m + t) * 2^e, where 0 <= t < 1 and `sticky'
\* says whether t > 0
FRound(s, m, e, sticky) == FRoundLen(s, m, e, sticky, BBitLen(m))

\* int -> float (exact for the integers of the model)
FFromInt(n) == FRound(0, BFromInt(n), 0, FALSE)

FQuotient(s, q, e) == FRound(s, q[1], e, q[2] # 0)

\* the float a decimal literal n/d denotes: the nearest to the exact quotient
FFromRatio(n, d) ==
  FQuotient(0, BDivSmall(BShl(BFromInt(n), 5 * LimbBits), d), -(5 * LimbBits))

FNeg(a) == IF a.m = << >> THEN a ELSE [a EXCEPT !.s = 1 - a.s]

FAbs(a) == [a EXCEPT !.s = 0]

\* (-1)^sa * am + (-1)^sb * bm, in units of 2^e; c compares am with bm
FAddExact(sa, am, sb, bm, e, c) ==
  FRound(IF sa = sb \/ c > 0 THEN sa ELSE sb,
         IF sa = sb THEN BAdd(am, bm)
         ELSE IF c >= 0 THEN BSub(am, bm)
         ELSE BSub(bm, am),
         e, FALSE)

FAddSigned(sa, am, sb, bm, e) == FAddExact(sa, am, sb, bm, e, BCmp(am, bm))

FAddAt(a, b, e) ==
  FAddSigned(a.s, BShl(a.m, a.e - e), b.s, BShl(b.m, b.e - e), e)

\* float + float
FAdd(a, b) ==
  IF a.m = << >> THEN b
  ELSE IF b.m = << >> THEN a
  ELSE FAddAt(a, b, IF a.e <= b.e THEN a.e ELSE b.e)

\* float - float
FSub(a, b) == FAdd(a, FNeg(b))

\* float * float
FMul(a, b) ==
  IF a.m = << >> \/ b.m = << >> THEN FZero
  ELSE FRound((a.s + b.s) % 2, BMul(a.m, b.m), a.e + b.e, FALSE)

\* float / int, for an int 0 < n < Limb
FDivInt(a, n) ==
  IF a.m = << >> THEN FZero
  ELSE FQuotient(a.s, BDivSmall(BShl(a.m, 2 * LimbBits), n), a.e - 2 * LimbBits)

\* a < b
\* |a| < |b| for a, b other than zero
FSmaller(a, b) == a.e < b.e \/ (a.e = b.e /\ BCmp(a.m, b.m) < 0)

FLt(a, b) ==
  IF a.m = << >> THEN b.m # << >> /\ b.s = 0
  ELSE IF b.m = << >> THEN a.s = 1
  ELSE IF a.s # b.s THEN a.s = 1
  ELSE IF a.s = 0 THEN FSmaller(a, b)
  ELSE FSmaller(b, a)

FGt(a, b) == FLt(b, a)

FLe(a, b) == ~FLt(b, a)

FGe(a, b) == ~FLt(a, b)

\* Python's min(a, b): the first of the smallest
PyMin(a, b) == IF FLt(b, a) THEN b ELSE a

\* the float a two-decimal literal denotes: Cent[15] is 0.15
Cent == [k \in 0..100 |-> FFromRatio(k, 100)]

(***************************************************************************)
(* Python values, as far as the program reads them: a dict holds its keys  *)
(* and, in the same order, their values; a list holds its items; a str is  *)
(* the sequence of the words it is made of (TLC's strings are atoms), so   *)
(* that `word in text' is decided by the words.                            *)
(***************************************************************************)
PyNone == [t |-> "NoneType", keys |-> << >>, items |-> << >>]

PyStr(words) == [t |-> "str", keys |-> words, items |-> << >>]

PyList(items) == [t |-> "list", keys |-> << >>, items |-> items]

PyDict(keys, items) == [t |-> "dict", keys |-> keys, items |-> items]

\* the outcome of an expression: the exception it raises, or its value
Returns(v) == [exc |-> "none", val |-> v]

Raises(e) == [exc |-> e, val |-> PyNone]

SeqHas(seq, v) == \E i \in 1..Len(seq) : seq[i] = v

\* key in container
PyContains(key, c) ==
  CASE c.t = "dict" -> Returns(SeqHas(c.keys, key))
    [] c.t = "list" -> Returns(SeqHas(c.items, PyStr(<<key>>)))
    [] c.t = "str"  -> Returns(SeqHas(c.keys, key))
    [] OTHER        -> Raises("TypeError")

\* container[key], key a str
PyGetItem(c, key) ==
  IF c.t = "dict"
  THEN IF SeqHas(c.keys, key)
       THEN Returns(c.items[CHOOSE i \in 1..Len(c.keys) : c.keys[i] = key])
       ELSE Raises("KeyError")
  ELSE Raises("TypeError")

\* len(container)
PyLen(c) ==
  CASE c.t = "dict" -> Returns(Len(c.keys))
    [] c.t = "list" -> Returns(Len(c.items))
    [] c.t = "str"  -> Returns(Len(c.keys))
    [] OTHER        -> Raises("TypeError")

\* the classes `except Exception' catches: all that the program can raise
ExceptionSubclasses ==
  {"FileNotFoundError", "JSONDecodeError", "ValueError", "KeyError",
   "TypeError", "AttributeError"}

(***************************************************************************)
(* The state: the interpreter and the configuration file the wrapper is    *)
(* built from, the wrapper's fields, and run_campaign's locals.            *)
(***************************************************************************)
VARIABLES
  float_sum,          \* how this interpreter's sum() adds floats
  file,               \* the file at config_path
  pc,                 \* "new", "ready", "failed" (__init__ raised), "loop"
  config,             \* self.config
  agents,             \* self.agents
  error,              \* the exception that left the last call, or "none"
  target_accounts,    \* run_campaign's argument
  idx,                \* the accounts the loop has taken
  total_touchpoints,  \* run_campaign's accumulators
  engagement_scores,
  predicted_pipeline,
  results,            \* the CampaignResults of the last call that returned
  previous,           \* the call that returned before it: accounts, results
  account,            \* the scoring functions called on their own:
  content,            \*   their arguments,
  engagement,
  engagement_score,   \*   and what they returned
  pipeline_value,
  step

vars ==
  <<float_sum, file, pc, config, agents, error, target_accounts, idx,
    total_touchpoints, engagement_scores, predicted_pipeline, results,
    previous, account, content, engagement, engagement_score,
    pipeline_value, step>>

campaignVars ==
  <<float_sum, file, pc, config, agents, error, target_accounts, idx,
    total_touchpoints, engagement_scores, predicted_pipeline, results,
    previous>>

scoringVars ==
  <<account, content, engagement, engagement_score, pipeline_value, step>>

(***************************************************************************)
(* The configuration loader and the constructor.                           *)
(***************************************************************************)
required_keys == <<"target_market", "ai_models", "channels">>

\* the validation loop from its i-th key on
RECURSIVE ValidateFrom(_, _)
ValidateKey(cfg, i, found) ==
  IF found.exc # "none" THEN Raises(found.exc)
  ELSE IF ~found.val THEN Raises("ValueError")
  ELSE ValidateFrom(cfg, i + 1)

ValidateFrom(cfg, i) ==
  IF i > Len(required_keys) THEN Returns(cfg)
  ELSE ValidateKey(cfg, i, PyContains(required_keys[i], cfg))

\* open, json.load, validate; what is raised is logged and raised again
_load_config(f) ==
  IF ~f.exists THEN Raises("FileNotFoundError")
  ELSE IF ~f.parses THEN Raises("JSONDecodeError")
  ELSE ValidateFrom(f.value, 1)

\* AccountIntelligenceAgent(config) reads config['target_market']['industry']
IndustryOf(market) ==
  IF market.exc # "none" THEN market ELSE PyGetItem(market.val, "industry")

AccountIntelligenceAgentInit(cfg) == IndustryOf(PyGetItem(cfg, "target_market"))

NoAgents == [industry_context |-> PyNone]

AgentsWith(industry) ==
  IF industry.exc # "none" THEN [exc |-> industry.exc, val |-> NoAgents]
  ELSE [exc |-> "none", val |-> [industry_context |-> industry.val]]

\* the three agents; only the first reads the configuration
_initialize_agents(cfg) == AgentsWith(AccountIntelligenceAgentInit(cfg))

(***************************************************************************)
(* The built-in agents.  A profile keeps the fields the program reads.     *)
(***************************************************************************)
\* enrich_account: account_id.replace(...) needs a str; the rest is constant
enrich_account(agent, account_id) ==
  IF account_id.t # "str"
  THEN [exc |-> "AttributeError", val |-> PyNone]
  ELSE [exc |-> "none",
        val |-> [company_id             |-> account_id,
                 industry               |-> agent.industry_context,
                 revenue                |-> "£5M-£25M",
                 financial_health_score |-> Cent[78],
                 intent_score           |-> Cent[65]]]

analyze_intent(profile) ==
  [intent_score        |-> profile.intent_score,
   urgency_level       |-> "medium",
   predicted_timeframe |-> "3-6 months"]

\* variant: content scored 0.75
create_content_generic(profile, intent_data) ==
  [personalization_score |-> Cent[75], compliance_approved |-> TRUE]

create_content(profile, intent_data) ==
  [personalization_score |-> Cent[85], compliance_approved |-> TRUE]

\* dict.get(key, default) on a dict with str keys
DictGet(d, key, default) == IF key \in DOMAIN d THEN d[key] ELSE default

(***************************************************************************)
(* The scoring functions.                                                  *)
(***************************************************************************)
\* if condition: base_score += boost
Boost(base_score, condition, boost) ==
  IF condition THEN FAdd(base_score, boost) ELSE base_score

\* variant: the thresholds themselves earn the boosts
ScoreFromThresholds(profile, cont) ==
  PyMin(Boost(Boost(Boost(Cent[15],
                          FGe(profile.financial_health_score, Cent[70]),
                          Cent[10]),
                    FGe(profile.intent_score, Cent[60]),
                    Cent[15]),
              FGe(DictGet(cont, "personalization_score", FZero), Cent[80]),
              Cent[12]),
        Cent[65])

\* variant: a boost of 0.25 for intent
ScoreWithLargerBoost(profile, cont) ==
  PyMin(Boost(Boost(Boost(Cent[15],
                          FGt(profile.financial_health_score, Cent[70]),
                          Cent[10]),
                    FGt(profile.intent_score, Cent[60]),
                    Cent[25]),
              FGt(DictGet(cont, "personalization_score", FZero), Cent[80]),
              Cent[12]),
        Cent[65])

_calculate_engagement_score(profile, cont) ==
  PyMin(Boost(Boost(Boost(Cent[15],
                          FGt(profile.financial_health_score, Cent[70]),
                          Cent[10]),
                    FGt(profile.intent_score, Cent[60]),
                    Cent[15]),
              FGt(DictGet(cont, "personalization_score", FZero), Cent[80]),
              Cent[12]),
        Cent[65])

revenue_multiplier ==
  ("£1M-£5M" :> 50000) @@ ("£5M-£25M" :> 200000) @@ ("£25M-£50M" :> 500000)

\* variant: revenue_multiplier.get(revenue, 0)
BaseValueWithoutDefault(revenue) ==
  IF revenue \in DOMAIN revenue_multiplier THEN revenue_multiplier[revenue]
  ELSE 0

\* revenue_multiplier.get(revenue, 100000)
BaseValue(revenue) ==
  IF revenue \in DOMAIN revenue_multiplier THEN revenue_multiplier[revenue]
  ELSE 100000

_estimate_pipeline_value(profile, eng) ==
  FMul(FMul(FFromInt(BaseValue(profile.revenue)), eng), profile.intent_score)

_calculate_channel_performance ==
  [email       |-> [engagement_rate |-> Cent[42], conversion_rate |-> Cent[8]],
   linkedin    |-> [engagement_rate |-> Cent[28], conversion_rate |-> Cent[12]],
   direct_mail |-> [engagement_rate |-> Cent[15], conversion_rate |-> Cent[6]]]

(***************************************************************************)
(* sum(engagement_scores).  The start value is the int 0, so the first     *)
(* item is taken as it is.  CPython up to 3.11 adds the rest from left to  *)
(* right; CPython 3.12 and later keep Neumaier's compensation term c and   *)
(* add it at the end.                                                      *)
(***************************************************************************)
RECURSIVE SumLeftToRight(_, _, _)
SumLeftToRight(seq, i, total) ==
  IF i > Len(seq) THEN total
  ELSE SumLeftToRight(seq, i + 1, FAdd(total, seq[i]))

\* what the addition t = total + v lost
NeumaierLost(total, v, t) ==
  IF FGe(FAbs(total), FAbs(v)) THEN FAdd(FSub(total, t), v)
  ELSE FAdd(FSub(v, t), total)

RECURSIVE SumNeumaier(_, _, _, _)
NeumaierStep(seq, i, total, c, t) ==
  SumNeumaier(seq, i + 1, t, FAdd(c, NeumaierLost(total, seq[i], t)))

SumNeumaier(seq, i, total, c) ==
  IF i > Len(seq) THEN FAdd(total, c)
  ELSE NeumaierStep(seq, i, total, c, FAdd(total, seq[i]))

SumAlgorithms == {"left_to_right", "neumaier"}

PySum(seq, algorithm) ==
  IF seq = << >> THEN FZero
  ELSE IF algorithm = "left_to_right" THEN SumLeftToRight(seq, 2, seq[1])
  ELSE SumNeumaier(seq, 2, seq[1], FZero)

(***************************************************************************)
(* run_campaign.                                                           *)
(***************************************************************************)
\* variant: the accumulators are not reset
CarriedAccumulators ==
  [total_touchpoints  |-> total_touchpoints,
   engagement_scores  |-> engagement_scores,
   predicted_pipeline |-> predicted_pipeline]

\* lines 101-103
StartAccumulators ==
  [total_touchpoints |-> 0, engagement_scores |-> << >>,
   predicted_pipeline |-> FZero]

TouchpointsOf(count) ==
  IF count.exc # "none" THEN [exc |-> count.exc, val |-> 0]
  ELSE [exc |-> "none", val |-> count.val * 3]

PrimaryOf(primary) ==
  IF primary.exc # "none" THEN [exc |-> primary.exc, val |-> 0]
  ELSE TouchpointsOf(PyLen(primary.val))

ChannelsOf(channels) ==
  IF channels.exc # "none" THEN [exc |-> channels.exc, val |-> 0]
  ELSE PrimaryOf(PyGetItem(channels.val, "primary"))

\* len(self.config['channels']['primary']) * 3
Touchpoints(cfg) == ChannelsOf(PyGetItem(cfg, "channels"))

NoGain == [touchpoints |-> 0, engagement_score |-> FZero, pipeline_value |-> FZero]

\* line 121
AfterScore(touchpoints, profile, score) ==
  [exc  |-> "none",
   gain |-> [touchpoints      |-> touchpoints,
             engagement_score |-> score,
             pipeline_value   |-> _estimate_pipeline_value(profile, score)]]

\* lines 119-120
AfterContent(touch, profile, cont) ==
  IF touch.exc # "none" THEN [exc |-> touch.exc, gain |-> NoGain]
  ELSE AfterScore(touch.val, profile, _calculate_engagement_score(profile, cont))

\* lines 111-116
AfterEnrichment(cfg, enriched) ==
  IF enriched.exc # "none" THEN [exc |-> enriched.exc, gain |-> NoGain]
  ELSE AfterContent(Touchpoints(cfg), enriched.val,
                    create_content(enriched.val, analyze_intent(enriched.val)))

\* the body of the try block up to line 121: the exception it raises, or what
\* the account adds to the accumulators
TryAccount(cfg, agts, account_id) ==
  AfterEnrichment(cfg, enrich_account(agts, account_id))

\* variant: except ValueError
CatchesValueError(exc) == exc = "ValueError"

\* except Exception
Catches(exc) == exc \in ExceptionSubclasses

\* lines 123-125
Accumulate(acc, gain) ==
  [total_touchpoints  |-> acc.total_touchpoints + gain.touchpoints,
   engagement_scores  |-> Append(acc.engagement_scores, gain.engagement_score),
   predicted_pipeline |-> FAdd(acc.predicted_pipeline, gain.pipeline_value)]

\* variant: the mean over the accounts requested
AverageOverRequested(scores, algorithm) ==
  IF scores # << >>
  THEN FDivInt(PySum(scores, algorithm), Len(target_accounts))
  ELSE FZero

\* line 134
AverageEngagement(scores, algorithm) ==
  IF scores # << >> THEN FDivInt(PySum(scores, algorithm), Len(scores))
  ELSE FZero

\* lines 136-142
MakeResults(accounts, acc, algorithm) ==
  [total_accounts         |-> Len(accounts),
   total_touchpoints      |-> acc.total_touchpoints,
   engagement_rate        |-> AverageEngagement(acc.engagement_scores, algorithm),
   predicted_pipeline     |-> acc.predicted_pipeline,
   performance_by_channel |-> _calculate_channel_performance]

(***************************************************************************)
(* Inputs: the configuration files, the account lists and the scores.      *)
(***************************************************************************)
MaxAccounts == 3
MaxChannels == 2
MaxBatch == 10

Str(word) == PyStr(<<word>>)

ChannelName(i) ==
  CASE i = 1 -> "email" [] i = 2 -> "linkedin" [] i = 3 -> "direct_mail"
    [] OTHER -> "phone"

PrimaryList(n) == PyList([i \in 1..n |-> Str(ChannelName(i))])

TargetMarkets ==
  {PyDict(<<"industry", "decision_makers">>,
          <<Str("manufacturing"), PyList(<<Str("CEO"), Str("CFO")>>)>>),
   PyDict(<<"decision_makers">>, <<PyList(<<Str("CEO")>>)>>),
   PyNone}

ChannelsValues ==
  {PyDict(<<"primary">>, <<PrimaryList(n)>>) : n \in 0..MaxChannels}
    \cup {PyDict(<<"secondary">>, <<PrimaryList(1)>>),
          PyDict(<<"primary">>, <<PyNone>>),
          PyNone}

KeysAmong(present) == SelectSeq(required_keys, LAMBDA k : k \in present)

\* a JSON object with the keys `present'
ObjectDocument(present, market, channels) ==
  LET keys == KeysAmong(present)
  IN  PyDict(keys,
             [i \in 1..Len(keys) |->
                CASE keys[i] = "target_market" -> market
                  [] keys[i] = "channels"      -> channels
                  [] OTHER                     -> PyDict(<< >>, << >>)])

\* a JSON array of the strings `present'
ArrayDocument(present) ==
  LET keys == KeysAmong(present)
  IN  PyList([i \in 1..Len(keys) |-> Str(keys[i])])

\* a JSON string made of the words `present'
StringDocument(present) == PyStr(KeysAmong(present))

KeySets == SUBSET {required_keys[i] : i \in 1..Len(required_keys)}

Documents ==
  {ObjectDocument(present, market, channels) :
     present \in KeySets, market \in TargetMarkets, channels \in ChannelsValues}
    \cup {ArrayDocument(present) : present \in KeySets}
    \cup {StringDocument(present) : present \in KeySets}
    \cup {PyNone}

FileOf(doc) == [exists |-> TRUE, parses |-> TRUE, value |-> doc]

MissingFile == [exists |-> FALSE, parses |-> FALSE, value |-> PyNone]

GarbledFile == [exists |-> TRUE, parses |-> FALSE, value |-> PyNone]

Files == {FileOf(doc) : doc \in Documents} \cup {MissingFile, GarbledFile}

\* two identifiers and a value that is no str
AccountIds == {Str("acme_mfg"), PyNone}

BatchIds == <<Str("acme_mfg"), Str("techcorp_manufacturing")>>

\* the lists of one identifier and those that go round the identifiers
Batches(maxLen) ==
  {[i \in 1..n |-> BatchIds[k]] : n \in 0..maxLen, k \in 1..Len(BatchIds)}
    \cup {[i \in 1..n |-> BatchIds[((i + k) % Len(BatchIds)) + 1]] :
             n \in 0..maxLen, k \in 1..Len(BatchIds)}

ListsOf(ids, maxLen) == UNION {[1..n -> ids] : n \in 0..maxLen}

\* the configuration main() runs with
DemoFile ==
  FileOf(ObjectDocument({"target_market", "ai_models", "channels"},
                        PyDict(<<"industry", "decision_makers">>,
                               <<Str("manufacturing"),
                                 PyList(<<Str("CEO"), Str("CFO")>>)>>),
                        PyDict(<<"primary">>, <<PrimaryList(MaxChannels)>>)))

ScorePoints == {0, 60, 61, 70, 71, 80, 81, 100}

Scores == {Cent[k] : k \in ScorePoints}

Revenues == DOMAIN revenue_multiplier \cup {"£50M+"}

ProfileInputs ==
  [company_id             : {Str("acme_mfg")},
   industry               : {Str("manufacturing")},
   revenue                : Revenues,
   financial_health_score : Scores,
   intent_score           : Scores]

ContentInputs ==
  {[personalization_score |-> p, compliance_approved |-> TRUE] : p \in Scores}
    \cup {[compliance_approved |-> TRUE]}

(***************************************************************************)
(* The initial states.                                                     *)
(***************************************************************************)
NotLoaded == [t |-> "unset", keys |-> << >>, items |-> << >>]

NoResults == [none |-> TRUE]

NoCall == [accounts |-> << >>, results |-> NoResults]

NoProfile ==
  [company_id |-> PyNone, industry |-> PyNone, revenue |-> "",
   financial_health_score |-> FZero, intent_score |-> FZero]

CampaignStart ==
  /\ pc = "new"
  /\ config = NotLoaded
  /\ agents = NoAgents
  /\ error = "none"
  /\ target_accounts = << >>
  /\ idx = 0
  /\ total_touchpoints = 0
  /\ engagement_scores = << >>
  /\ predicted_pipeline = FZero
  /\ results = NoResults
  /\ previous = NoCall

ScoringIdle ==
  /\ account = NoProfile
  /\ content = [compliance_approved |-> TRUE]
  /\ engagement = FZero
  /\ engagement_score = FZero
  /\ pipeline_value = FZero
  /\ step = "idle"

Init ==
  /\ float_sum \in SumAlgorithms
  /\ file \in Files
  /\ CampaignStart
  /\ ScoringIdle

(***************************************************************************)
(* The actions.                                                            *)
(***************************************************************************)
\* self.agents = self._initialize_agents()
Initialized(cfg, made) ==
  IF made.exc # "none"
  THEN /\ pc' = "failed"
       /\ error' = made.exc
       /\ config' = cfg
       /\ UNCHANGED agents
  ELSE /\ pc' = "ready"
       /\ config' = cfg
       /\ agents' = made.val
       /\ UNCHANGED error

\* self.config = self._load_config(config_path)
Loaded(loaded) ==
  IF loaded.exc # "none"
  THEN /\ pc' = "failed"
       /\ error' = loaded.exc
       /\ UNCHANGED <<config, agents>>
  ELSE Initialized(loaded.val, _initialize_agents(loaded.val))

\* ABMAgentWrapper(config_path)
Construct ==
  /\ pc = "new"
  /\ Loaded(_load_config(file))
  /\ UNCHANGED <<float_sum, file, target_accounts, idx, total_touchpoints,
                 engagement_scores, predicted_pipeline, results, previous>>
  /\ UNCHANGED scoringVars

\* run_campaign(accounts) up to the loop; the caller keeps what the call
\* before returned
RunCampaign(accounts) ==
  /\ pc = "ready"
  /\ pc' = "loop"
  /\ error' = "none"
  /\ target_accounts' = accounts
  /\ idx' = 0
  /\ total_touchpoints' = StartAccumulators.total_touchpoints
  /\ engagement_scores' = StartAccumulators.engagement_scores
  /\ predicted_pipeline' = StartAccumulators.predicted_pipeline
  /\ previous' = [accounts |-> target_accounts, results |-> results]
  /\ UNCHANGED <<float_sum, file, config, agents, results>>
  /\ UNCHANGED scoringVars

Accumulators ==
  [total_touchpoints  |-> total_touchpoints,
   engagement_scores  |-> engagement_scores,
   predicted_pipeline |-> predicted_pipeline]

Store(acc) ==
  /\ total_touchpoints' = acc.total_touchpoints
  /\ engagement_scores' = acc.engagement_scores
  /\ predicted_pipeline' = acc.predicted_pipeline

\* variant: the touchpoints are counted before the account's steps
EndPassCountingFirst(tried) ==
  IF tried.exc = "none"
  THEN /\ Store(Accumulate(Accumulators, tried.gain))
       /\ idx' = idx + 1
       /\ UNCHANGED <<pc, error>>
  ELSE /\ idx' = idx + 1
       /\ total_touchpoints' = total_touchpoints + 3
       /\ UNCHANGED <<pc, error, engagement_scores, predicted_pipeline>>

\* how a pass of the loop ends: the account is added, or the except clause
\* logs what was raised and the loop goes on; what it does not catch leaves
\* run_campaign
EndPass(tried) ==
  IF tried.exc = "none"
  THEN /\ Store(Accumulate(Accumulators, tried.gain))
       /\ idx' = idx + 1
       /\ UNCHANGED <<pc, error>>
  ELSE IF Catches(tried.exc)
  THEN /\ idx' = idx + 1
       /\ UNCHANGED <<pc, error, total_touchpoints, engagement_scores,
                      predicted_pipeline>>
  ELSE /\ pc' = "ready"
       /\ error' = tried.exc
       /\ UNCHANGED <<idx, total_touchpoints, engagement_scores,
                      predicted_pipeline>>

\* one pass of the loop: the try block and its except clause
ProcessAccount ==
  /\ pc = "loop"
  /\ idx < Len(target_accounts)
  /\ EndPass(TryAccount(config, agents, target_accounts[idx + 1]))
  /\ UNCHANGED <<float_sum, file, config, agents, target_accounts, results,
                 previous>>
  /\ UNCHANGED scoringVars

\* after the loop: the results are built and returned
Return ==
  /\ pc = "loop"
  /\ idx = Len(target_accounts)
  /\ pc' = "ready"
  /\ results' = MakeResults(target_accounts, Accumulators, float_sum)
  /\ UNCHANGED <<float_sum, file, config, agents, error, target_accounts, idx,
                 total_touchpoints, engagement_scores, predicted_pipeline,
                 previous>>
  /\ UNCHANGED scoringVars

Next ==
  \/ Construct
  \/ \E accounts \in ListsOf(AccountIds, MaxAccounts) : RunCampaign(accounts)
  \/ ProcessAccount
  \/ Return

Spec == Init /\ [][Next]_vars

(***************************************************************************)
(* main(): the wrapper is built from the demo configuration and            *)
(* run_campaign is called once, on a list of identifiers.                  *)
(***************************************************************************)
InitDemo ==
  /\ float_sum \in SumAlgorithms
  /\ file = DemoFile
  /\ CampaignStart
  /\ ScoringIdle

DemoCampaign ==
  /\ results = NoResults
  /\ \E accounts \in Batches(MaxBatch) : RunCampaign(accounts)

NextDemo ==
  \/ Construct
  \/ DemoCampaign
  \/ ProcessAccount
  \/ Return

SpecDemo == InitDemo /\ [][NextDemo]_vars

(***************************************************************************)
(* The scoring functions on their own: lines 120 and 121 on any profile,   *)
(* content record and engagement score.                                    *)
(***************************************************************************)
InitScoring ==
  /\ float_sum \in SumAlgorithms
  /\ file = DemoFile
  /\ CampaignStart
  /\ account \in ProfileInputs
  /\ content \in ContentInputs
  /\ engagement = FZero
  /\ engagement_score = FZero
  /\ pipeline_value = FZero
  /\ step = "start"

CalculateEngagement ==
  /\ step = "start"
  /\ engagement_score' = _calculate_engagement_score(account, content)
  /\ step' = "scored"
  /\ UNCHANGED <<account, content, engagement, pipeline_value>>
  /\ UNCHANGED campaignVars

EstimatePipeline ==
  /\ step = "scored"
  /\ \E eng \in Scores \cup {engagement_score} :
       /\ engagement' = eng
       /\ pipeline_value' = _estimate_pipeline_value(account, eng)
  /\ step' = "valued"
  /\ UNCHANGED <<account, content, engagement_score>>
  /\ UNCHANGED campaignVars

NextScoring == CalculateEngagement \/ EstimatePipeline

SpecScoring == InitScoring /\ [][NextScoring]_vars

(***************************************************************************)
(* What the claims speak of.                                               *)
(***************************************************************************)
\* run_campaign has returned its results
Returned == pc = "ready" /\ results # NoResults

\* the wrapper exists: __init__ has returned
Built == pc \in {"ready", "loop"}

\* the configured primary channels, when the configuration has a list of them
PrimaryChannels(cfg) == PyGetItem(PyGetItem(cfg, "channels").val, "primary").val

HasPrimaryChannels(cfg) ==
  /\ PyGetItem(cfg, "channels").exc = "none"
  /\ PyGetItem(PyGetItem(cfg, "channels").val, "primary").exc = "none"
  /\ PrimaryChannels(cfg).t = "list"

\* enrichment succeeds on the identifiers that are strings
Enrichable(account_id) == account_id.t = "str"

\* the account's steps all succeed
Processable(account_id) == Enrichable(account_id) /\ HasPrimaryChannels(config)

\* how many of the first n accounts of the list satisfy Test
CountFirst(n, Test(_)) ==
  Cardinality({i \in 1..n : Test(target_accounts[i])})

\* 2^-53, half the distance from 1 to the next float
HalfUlp == FRound(0, <<1>>, -SigBits, FALSE)

FWithin(a, b, bound) == FLe(FAbs(FSub(a, b)), bound)

(***************************************************************************)
(* C1.  No exception leaves run_campaign: whatever an account's processing *)
(* raises, the pass ends with the accumulators as they were and the loop   *)
(* at the next account, and the results returned count every requested    *)
(* account, the failed ones included.                                      *)
(***************************************************************************)
C1_NoEscape == Built => error = "none"

C1_CountsAll == Returned => results.total_accounts = Len(target_accounts)

C1_FailedPass ==
  (/\ pc = "loop"
   /\ idx < Len(target_accounts)
   /\ ~Processable(target_accounts[idx + 1]))
    => /\ pc' = "loop"
       /\ idx' = idx + 1
       /\ total_touchpoints' = total_touchpoints
       /\ engagement_scores' = engagement_scores
       /\ predicted_pipeline' = predicted_pipeline

\* C1: no exception escapes, every requested account is counted, and a
\* failed pass changes no accumulator and moves on to the next account
C1_FailuresSkipped == [](C1_NoEscape /\ C1_CountsAll) /\ [][C1_FailedPass]_vars

\* a list whose first account fails and whose second is processed has returned
C1_Witness ==
  /\ Returned
  /\ Len(target_accounts) = 2
  /\ ~Processable(target_accounts[1])
  /\ Processable(target_accounts[2])
  /\ results.total_accounts = 2
  /\ Len(engagement_scores) = 1
  /\ results.total_touchpoints > 0

(***************************************************************************)
(* C2.  Once the constructor has run: a file that is absent or unparsable, *)
(* or whose document lacks one of the three top-level keys, made the       *)
(* loader fail (no configuration was returned) and no wrapper exists; a    *)
(* document with the three keys was returned as the configuration.         *)
(***************************************************************************)
HasKeys(doc) ==
  /\ doc.t = "dict"
  /\ \A i \in 1..Len(required_keys) : SeqHas(doc.keys, required_keys[i])

\* C2: a file absent, unparsable or lacking a required key is rejected by
\* the loader; a document with the three keys is returned
C2_LoaderRejectsMissingKeys ==
  pc # "new" =>
    IF file.exists /\ file.parses /\ HasKeys(file.value)
    THEN config = file.value
    ELSE pc = "failed" /\ config = NotLoaded /\ error # "none"

(***************************************************************************)
(* C3.  With a configuration the loader accepted, only enrichment can fail *)
(* in a pass of the loop: every account taken so far whose enrichment      *)
(* succeeded has its engagement score recorded.                            *)
(***************************************************************************)
C3_OnlyEnrichmentFails ==
  Built => Len(engagement_scores) = CountFirst(idx, Enrichable)

(***************************************************************************)
(* C4.  The engagement score is 0.15, plus 0.10 when financial health is   *)
(* over 0.7, plus 0.15 when intent is over 0.6, plus 0.12 when the content *)
(* has a personalization score over 0.8, at most 0.65; it lies in          *)
(* [0.15, 0.65].                                                           *)
(***************************************************************************)
Hundredths(b, n) == IF b THEN n ELSE 0

C4_Expected ==
  15 + Hundredths(FGt(account.financial_health_score, Cent[70]), 10)
     + Hundredths(FGt(account.intent_score, Cent[60]), 15)
     + Hundredths("personalization_score" \in DOMAIN content
                    /\ FGt(content["personalization_score"], Cent[80]), 12)

\* C4: the score is 0.15 plus the boosts earned, capped at 0.65, and lies in
\* [0.15, 0.65]
C4_ScoreInRange ==
  step \in {"scored", "valued"} =>
    /\ engagement_score = Cent[IF C4_Expected <= 65 THEN C4_Expected ELSE 65]
    /\ FGe(engagement_score, Cent[15])
    /\ FLe(engagement_score, Cent[65])

\* a content record without a personalization score, both other boosts given
C4_Witness ==
  /\ step = "scored"
  /\ "personalization_score" \notin DOMAIN content
  /\ account.financial_health_score = Cent[71]
  /\ account.intent_score = Cent[61]
  /\ engagement_score = Cent[40]

(***************************************************************************)
(* C5.  The pipeline value is the base deal size of the revenue bracket    *)
(* (50000, 200000, 500000; 100000 for any other bracket) times the         *)
(* engagement score times the intent score, and is not negative.           *)
(***************************************************************************)
C5_BaseDealSize ==
  CASE account.revenue = "£1M-£5M"   -> 50000
    [] account.revenue = "£5M-£25M"  -> 200000
    [] account.revenue = "£25M-£50M" -> 500000
    [] OTHER                         -> 100000

\* C5: the pipeline value is base deal size * engagement * intent, and is
\* not negative
C5_PipelineValue ==
  step = "valued" =>
    /\ pipeline_value =
         FMul(FMul(FFromInt(C5_BaseDealSize), engagement), account.intent_score)
    /\ FGe(pipeline_value, FZero)

\* an unrecognized bracket: 100000 * 0.6 * 1.0
C5_Witness ==
  /\ step = "valued"
  /\ account.revenue = "£50M+"
  /\ engagement = Cent[60]
  /\ account.intent_score = Cent[100]
  /\ pipeline_value = FFromInt(60000)

(***************************************************************************)
(* C6.  With the built-in agents every account processed gets engagement   *)
(* score 0.52 and pipeline value 67600.                                    *)
(***************************************************************************)
C6_PerAccount ==
  /\ \A i \in 1..Len(engagement_scores) : engagement_scores[i] = Cent[52]
  /\ predicted_pipeline = FFromInt(67600 * Len(engagement_scores))

\* C6, as claimed: for n >= 1 accounts that all succeed, the engagement rate
\* is 0.52 and the predicted pipeline 67600 * n
C6_Claimed ==
  (Returned /\ Len(target_accounts) >= 1) =>
    /\ C6_PerAccount
    /\ results.engagement_rate = Cent[52]
    /\ results.predicted_pipeline = FFromInt(67600 * Len(target_accounts))

\* C6, as amended: every score is 0.52 and every pipeline value 67600, so
\* the predicted pipeline is 67600 * n; the engagement rate, the float
\* quotient sum(scores) / n, is 0.52 for n <= 9 and within n * 2^-53 of 0.52
\* for every n
C6_BuiltinAgents ==
  /\ Built => C6_PerAccount
  /\ (Returned /\ Len(target_accounts) >= 1) =>
       /\ Len(engagement_scores) = Len(target_accounts)
       /\ results.predicted_pipeline = FFromInt(67600 * Len(target_accounts))
       /\ Len(target_accounts) <= 9 => results.engagement_rate = Cent[52]
       /\ FWithin(results.engagement_rate, Cent[52],
                  FMul(FFromInt(Len(target_accounts)), HalfUlp))

\* three accounts, two different identifiers
C6_Witness ==
  /\ Returned
  /\ Len(target_accounts) = 3
  /\ target_accounts[1] # target_accounts[2]
  /\ results.engagement_rate = Cent[52]
  /\ results.predicted_pipeline = FFromInt(202800)

(***************************************************************************)
(* C7.  The engagement rate returned is the mean of the scores of the      *)
(* accounts processed successfully, the failed ones not counted, and 0     *)
(* when there is none; an empty list gives 0 accounts, 0 touchpoints,      *)
(* rate 0 and pipeline 0.                                                  *)
(***************************************************************************)
C7_MeanOfSuccessful ==
  Returned =>
    LET k == CountFirst(Len(target_accounts), Processable)
    IN  /\ Len(engagement_scores) = k
        /\ k = 0 => results.engagement_rate = FZero
        /\ k > 0 => results.engagement_rate =
                      FDivInt(PySum([i \in 1..k |-> Cent[52]], float_sum), k)
        /\ target_accounts = << >> =>
             /\ results.total_accounts = 0
             /\ results.total_touchpoints = 0
             /\ results.predicted_pipeline = FZero

\* three accounts of which the second failed: the mean is over two
C7_Witness ==
  /\ Returned
  /\ Len(target_accounts) = 3
  /\ ~Processable(target_accounts[2])
  /\ Len(engagement_scores) = 2
  /\ results.engagement_rate = Cent[52]

(***************************************************************************)
(* C8.  A call of run_campaign on the list of the call before it, on the   *)
(* same wrapper, returns the same results.                                 *)
(***************************************************************************)
C8_SameListSameResults ==
  (Returned /\ previous.results # NoResults
     /\ previous.accounts = target_accounts)
    => results = previous.results

\* a list with an account that is processed, called twice
C8_Witness ==
  /\ Returned
  /\ previous.results # NoResults
  /\ previous.accounts = target_accounts
  /\ Len(target_accounts) = 2
  /\ results.total_touchpoints > 0

(***************************************************************************)
(* C9.  In the loop and on return, with k the accounts processed           *)
(* successfully so far: total_touchpoints is 3 times the number of primary *)
(* channels times k, k engagement scores are recorded and the predicted    *)
(* pipeline holds k pipeline values.                                       *)
(***************************************************************************)
C9_AccumulatorsTogether ==
  Built =>
    LET k == CountFirst(idx, Processable)
    IN  /\ Len(engagement_scores) = k
        /\ k > 0 => total_touchpoints = 3 * Len(PrimaryChannels(config).items) * k
        /\ k = 0 => total_touchpoints = 0
        /\ predicted_pipeline = FFromInt(67600 * k)
        /\ Returned => results.total_touchpoints = total_touchpoints

\* in the loop, after an account that failed and one that was processed
C9_Witness ==
  /\ pc = "loop"
  /\ idx = 2
  /\ ~Processable(target_accounts[1])
  /\ Processable(target_accounts[2])
  /\ Len(PrimaryChannels(config).items) = 2
  /\ total_touchpoints = 6
  /\ Len(engagement_scores) = 1

(***************************************************************************)
(* C10.  The engagement score is one of 0.15, 0.25, 0.27, 0.30, 0.37,      *)
(* 0.40, 0.42 and 0.52: never over 0.52, so never the cap 0.65.            *)
(***************************************************************************)
C10_EightScores ==
  step \in {"scored", "valued"} =>
    /\ engagement_score \in
         {Cent[15], Cent[25], Cent[27], Cent[30], Cent[37], Cent[40], Cent[42],
          Cent[52]}
    /\ FLe(engagement_score, Cent[52])
    /\ engagement_score # Cent[65]

\* all three boosts
C10_Witness ==
  /\ step = "scored"
  /\ account.financial_health_score = Cent[100]
  /\ account.intent_score = Cent[100]
  /\ "personalization_score" \in DOMAIN content
  /\ content["personalization_score"] = Cent[100]
  /\ engagement_score = Cent[52]

====
